---- MODULE Spec2Model ----
(***************************************************************************)
(* The voice relay of src/server/index.js: one client WebSocket per        *)
(* connection, one upstream (Gemini Live) WebSocket per registered         *)
(* connection, the activeConnections registry, the idle reaper and the     *)
(* signal handlers.  Sockets are numbered: client socket s and the         *)
(* upstream socket created for it in initializeGeminiSession share the     *)
(* number s.  Everything sent on a socket is appended to a log.            *)
(***************************************************************************)
EXTENDS Integers, Sequences, FiniteSets, TLC

\* ---------------------------------------------------------------- bounds
MaxConns == 2
MaxRand == 2
MaxSteps == 5
MaxExtraMs == 1

Socks == 1..MaxConns

\* ------------------------------------------------------------- constants
\* const timeout = 5 * 60 * 1000 (milliseconds)
Timeout == 5 * 60 * 1000

\* The clock advances by one millisecond, by the inactivity threshold or by
\* one more, so that ages of exactly Timeout, Timeout + 1 and below occur.
TickSteps == {1, Timeout, Timeout + 1}
MaxNow == Timeout + MaxExtraMs

NoId == <<>>

VARIABLES
  apiKey,            \* GEMINI_API_KEY is configured
  now,               \* Date.now()
  listener,          \* the http server: "listening", "closing", "closed"
  exited,            \* process.exit(0) was called
  clientWs,          \* readyState of client socket s: "none" before it connects
  connId,            \* the connectionId captured by the handlers of socket s
  geminiWs,          \* readyState of upstream socket g: "none" if never created
  activeConnections, \* the registry: connectionId -> record
  clientSent,        \* what was sent on client socket s, in order
  gemSent,           \* what was sent on upstream socket g, in order
  closeCalls,        \* number of geminiWs.close() calls on upstream socket g
  deletes,           \* number of registry deletions of the record of client socket s
  lastAudioAt,       \* time of the last binary frame received from client s, -1 if none
  ev,                \* the event handled by the last step
  steps              \* number of events handled so far

vars == <<apiKey, now, listener, exited, clientWs, connId, geminiWs,
          activeConnections, clientSent, gemSent, closeCalls, deletes,
          lastAudioAt, ev, steps>>

\* ------------------------------------------------------------ base64
\* Buffer.toString("base64") and Buffer.from(s, "base64") on byte sequences;
\* a base64 text is the sequence of its sextets, 64 standing for "=".
Pad == 64

RECURSIVE Base64Encode(_)
Base64Encode(bytes) ==
  IF Len(bytes) = 0 THEN <<>>
  ELSE IF Len(bytes) = 1 THEN
    LET n == bytes[1] * 65536
    IN <<n \div 262144, (n \div 4096) % 64, Pad, Pad>>
  ELSE IF Len(bytes) = 2 THEN
    LET n == bytes[1] * 65536 + bytes[2] * 256
    IN <<n \div 262144, (n \div 4096) % 64, (n \div 64) % 64, Pad>>
  ELSE
    LET n == bytes[1] * 65536 + bytes[2] * 256 + bytes[3]
    IN <<n \div 262144, (n \div 4096) % 64, (n \div 64) % 64, n % 64>>
         \o Base64Encode(SubSeq(bytes, 4, Len(bytes)))

RECURSIVE Base64Decode(_)
Base64Decode(text) ==
  IF Len(text) < 4 THEN <<>>
  ELSE
    LET c1 == text[1]
        c2 == text[2]
        c3 == IF text[3] = Pad THEN 0 ELSE text[3]
        c4 == IF text[4] = Pad THEN 0 ELSE text[4]
        n == c1 * 262144 + c2 * 4096 + c3 * 64 + c4
        b1 == n \div 65536
        b2 == (n \div 256) % 256
        b3 == n % 256
    IN IF text[3] = Pad THEN <<b1>>
       ELSE IF text[4] = Pad THEN <<b1, b2>>
       ELSE <<b1, b2, b3>> \o Base64Decode(SubSeq(text, 5, Len(text)))

\* ------------------------------------------------------------ messages
\* Binary frames a client may send.
AudioFrames == {<<77>>, <<1, 2, 3, 4>>}

\* Text frames a client may send: the three control types, an unknown type,
\* text that JSON.parse rejects, and the JSON text "null".
ClientTexts == {"ping", "interrupt", "audio_stream_end", "other", "malformed", "null"}

\* Envelopes sent upstream.
SetupMessage == [kind |-> "setup", data |-> <<>>]
RealtimeAudio(audioData) == [kind |-> "audio", data |-> Base64Encode(audioData)]
InterruptMessage == [kind |-> "activityStart", data |-> <<>>]
EndMessage == [kind |-> "audioStreamEnd", data |-> <<>>]

\* Messages sent to a client: JSON events and binary frames.
ClientEvent(type, status, message, id) ==
  [type |-> type, status |-> status, message |-> message, connectionId |-> id, data |-> <<>>]
ClientBinary(bytes) ==
  [type |-> "binary", status |-> "", message |-> "", connectionId |-> NoId, data |-> bytes]
Pong == ClientEvent("pong", "", "", NoId)
ProcessError == ClientEvent("error", "", "Failed to process message", NoId)
ConfigError == ClientEvent("error", "", "Server is missing Gemini API key", NoId)
UpstreamError == ClientEvent("error", "", "Gemini connection failed", NoId)
Connected(id) == ClientEvent("connection", "connected", "", id)
Disconnected == ClientEvent("connection", "disconnected", "Gemini session ended", NoId)
GenerationComplete == ClientEvent("generation_complete", "", "", NoId)
Interrupted == ClientEvent("interrupted", "", "", NoId)
TurnComplete == ClientEvent("turn_complete", "", "", NoId)

\* Parts of serverContent.modelTurn.parts: inline audio, text (no
\* inlineData), inline data of another MIME type, inlineData without mimeType.
AudioPart(bytes) == [kind |-> "audio", data |-> Base64Encode(bytes)]
TextPart == [kind |-> "text", data |-> <<>>]
ImagePart == [kind |-> "image", data |-> Base64Encode(<<9>>)]
NoMimePart == [kind |-> "nomime", data |-> <<>>]

\* Upstream payloads: parses is FALSE for text JSON.parse rejects.
UpMsg(parses, setupComplete, serverContent, parts, gc, intr, tc) ==
  [parses |-> parses, setupComplete |-> setupComplete, serverContent |-> serverContent,
   parts |-> parts, generationComplete |-> gc, interrupted |-> intr, turnComplete |-> tc]
NoUpMsg == UpMsg(FALSE, FALSE, FALSE, <<>>, FALSE, FALSE, FALSE)
UpMsgs ==
  { NoUpMsg,
    UpMsg(TRUE, TRUE, FALSE, <<>>, FALSE, FALSE, FALSE),
    UpMsg(TRUE, FALSE, TRUE, <<AudioPart(<<5>>)>>, FALSE, FALSE, FALSE),
    UpMsg(TRUE, FALSE, TRUE, <<AudioPart(<<5>>), TextPart, ImagePart, AudioPart(<<6, 7>>)>>,
          FALSE, FALSE, TRUE),
    UpMsg(TRUE, FALSE, TRUE, <<AudioPart(<<5>>), NoMimePart, AudioPart(<<6, 7>>)>>,
          TRUE, FALSE, FALSE),
    UpMsg(TRUE, FALSE, TRUE, <<>>, TRUE, FALSE, FALSE),
    UpMsg(TRUE, FALSE, TRUE, <<>>, FALSE, TRUE, FALSE),
    UpMsg(TRUE, FALSE, TRUE, <<>>, FALSE, FALSE, TRUE),
    UpMsg(TRUE, FALSE, TRUE, <<AudioPart(<<5>>)>>, TRUE, TRUE, TRUE) }

Event(type, s, data, text, up) ==
  [type |-> type, sock |-> s, data |-> data, text |-> text, up |-> up]

\* ------------------------------------------------------------ registry
MapSet(m, k, v) == [x \in (DOMAIN m) \cup {k} |-> IF x = k THEN v ELSE m[x]]
MapDelete(m, ks) == [x \in (DOMAIN m) \ ks |-> m[x]]
EmptyMap == [x \in {} |-> 0]

Registered(id) == id \in DOMAIN activeConnections

\* `conn_${Date.now()}_${crypto.randomBytes(4).toString("hex")}`
GenerateConnectionId(t, r) == <<t, r>>

\* ws.send on a socket that is not OPEN delivers nothing.
ClientSend(s, msgs) ==
  [clientSent EXCEPT ![s] = IF clientWs[s] = "open" THEN @ \o msgs ELSE @]

Init ==
  /\ apiKey \in BOOLEAN
  /\ now = 0
  /\ listener = "listening"
  /\ exited = FALSE
  /\ clientWs = [s \in Socks |-> "none"]
  /\ connId = [s \in Socks |-> NoId]
  /\ geminiWs = [s \in Socks |-> "none"]
  /\ activeConnections = EmptyMap
  /\ clientSent = [s \in Socks |-> <<>>]
  /\ gemSent = [s \in Socks |-> <<>>]
  /\ closeCalls = [s \in Socks |-> 0]
  /\ deletes = [s \in Socks |-> 0]
  /\ lastAudioAt = [s \in Socks |-> -1]
  /\ ev = Event("init", 0, <<>>, "", NoUpMsg)
  /\ steps = 0

\* Every handler runs while the process lives; the model stops after MaxSteps.
Running == ~exited /\ steps < MaxSteps

Step(e) == ev' = e /\ steps' = steps + 1


\* ------------------------------------------------- initializeGeminiSession
\* A session opening that does not test the credential.
CredentialMissingNever == FALSE

\* if (!GEMINI_API_KEY)
CredentialMissing == ~apiKey

\* A record that refers to one upstream socket shared by all connections.
NewRecordShared(s) ==
  [clientWs |-> s, geminiWs |-> 1, connected |-> FALSE,
   lastActivity |-> now, isGenerating |-> FALSE]

\* The record stored by activeConnections.set at registration.
NewRecord(s) ==
  [clientWs |-> s, geminiWs |-> s, connected |-> FALSE,
   lastActivity |-> now, isGenerating |-> FALSE]

\* Called from the "connection" handler, where the client socket s is OPEN.
\* Without a credential: one error event to the client, then return.
\* Otherwise: new WebSocket(...) (CONNECTING) and activeConnections.set.
InitializeGeminiSession(connectionId, s) ==
  IF CredentialMissing
  THEN /\ clientSent' = [clientSent EXCEPT ![s] = Append(@, ConfigError)]
       /\ UNCHANGED <<geminiWs, activeConnections>>
  ELSE /\ geminiWs' = [geminiWs EXCEPT ![s] = "connecting"]
       /\ activeConnections' = MapSet(activeConnections, connectionId, NewRecord(s))
       /\ UNCHANGED clientSent

\* wss.on("connection"): sockets are taken in order, a new one only while
\* the http server listens.
Connect(s, r) ==
  /\ Running
  /\ listener = "listening"
  /\ clientWs[s] = "none"
  /\ \A t \in Socks : t < s => clientWs[t] # "none"
  /\ LET connectionId == GenerateConnectionId(now, r) IN
       /\ connId' = [connId EXCEPT ![s] = connectionId]
       /\ clientWs' = [clientWs EXCEPT ![s] = "open"]
       /\ InitializeGeminiSession(connectionId, s)
  /\ Step(Event("connection", s, <<>>, "", NoUpMsg))
  /\ UNCHANGED <<apiKey, now, listener, exited, gemSent, closeCalls, deletes, lastAudioAt>>

\* ------------------------------------------------------- handleAudioInput
\* An early return that does not test connection.connected.
AudioForwardedNoReady(connectionId) ==
  /\ Registered(connectionId)
  /\ geminiWs[activeConnections[connectionId].geminiWs] = "open"

\* An early return that does not test geminiWs.readyState.
AudioForwardedNoOpen(connectionId) ==
  /\ Registered(connectionId)
  /\ activeConnections[connectionId].connected

\* The negation of the early return of line 273.
AudioForwarded(connectionId) ==
  /\ Registered(connectionId)
  /\ activeConnections[connectionId].connected
  /\ geminiWs[activeConnections[connectionId].geminiWs] = "open"

\* connection.lastActivity = Date.now() is reached only past the early return.
AudioTouches(connectionId) == AudioForwarded(connectionId)

HandleAudioInput(connectionId, audioData) ==
  /\ activeConnections' =
       IF AudioTouches(connectionId)
       THEN [activeConnections EXCEPT ![connectionId].lastActivity = now]
       ELSE activeConnections
  /\ gemSent' =
       IF AudioForwarded(connectionId)
       THEN [gemSent EXCEPT ![activeConnections[connectionId].geminiWs] =
               Append(@, RealtimeAudio(audioData))]
       ELSE gemSent

\* ws.on("message") with a Buffer: nothing in handleAudioInput throws.
ClientAudio(s, audioData) ==
  /\ Running
  /\ clientWs[s] = "open"
  /\ HandleAudioInput(connId[s], audioData)
  /\ lastAudioAt' = [lastAudioAt EXCEPT ![s] = now]
  /\ Step(Event("audio", s, audioData, "", NoUpMsg))
  /\ UNCHANGED <<apiKey, now, listener, exited, clientWs, connId, geminiWs,
                 clientSent, closeCalls, deletes>>

\* ----------------------------------------------------- handleClientMessage
\* A handler in which no exception reaches the catch block.
ClientMessageThrowsNever(connectionId, text) == FALSE

\* JSON.parse throws on malformed text; message.type throws on null, which
\* is reached only past the early return of line 296.
ClientMessageThrows(connectionId, text) ==
  \/ text = "malformed"
  \/ text = "null" /\ Registered(connectionId)

\* case "ping": replies only past the early return of line 296.
PingReplies(connectionId) == Registered(connectionId)

\* Control frames forwarded whatever the state of the upstream socket.
ControlForwardedAlways(connectionId) == Registered(connectionId)

\* case "interrupt" / "audio_stream_end": the guard of lines 305 and 317.
ControlForwarded(connectionId) ==
  /\ Registered(connectionId)
  /\ geminiWs[activeConnections[connectionId].geminiWs] = "open"

HandleClientMessage(connectionId, type) ==
  /\ clientSent' =
       IF type = "ping" /\ PingReplies(connectionId)
       THEN ClientSend(activeConnections[connectionId].clientWs, <<Pong>>)
       ELSE clientSent
  /\ gemSent' =
       IF type \in {"interrupt", "audio_stream_end"} /\ ControlForwarded(connectionId)
       THEN [gemSent EXCEPT ![activeConnections[connectionId].geminiWs] =
               Append(@, IF type = "interrupt" THEN InterruptMessage ELSE EndMessage)]
       ELSE gemSent

\* ws.on("message") with text: parse and dispatch, an exception is answered
\* with an error event on the same socket.
ClientText(s, text) ==
  /\ Running
  /\ clientWs[s] = "open"
  /\ IF ClientMessageThrows(connId[s], text)
     THEN /\ clientSent' = ClientSend(s, <<ProcessError>>)
          /\ UNCHANGED gemSent
     ELSE HandleClientMessage(connId[s], text)
  /\ Step(Event("text", s, <<>>, text, NoUpMsg))
  /\ UNCHANGED <<apiKey, now, listener, exited, clientWs, connId, geminiWs,
                 activeConnections, closeCalls, deletes, lastAudioAt>>

\* ------------------------------------------------------- cleanupConnection
\* A teardown that never calls geminiWs.close().
CleanupClosesNever(connectionId) == FALSE

\* if (connection) ... if (geminiWs && readyState === OPEN) geminiWs.close()
CleanupCloses(connectionId) ==
  /\ Registered(connectionId)
  /\ geminiWs[activeConnections[connectionId].geminiWs] = "open"

\* A teardown that leaves the record in the registry.
CleanupDeletesNever(connectionId) == FALSE

\* if (connection) ... activeConnections.delete(connectionId)
CleanupDeletes(connectionId) == Registered(connectionId)

\* A teardown that empties the registry whatever ids it is given.
CleanupConnectionsAll(ids) ==
  LET closed == {activeConnections[id].geminiWs : id \in {i \in ids : CleanupCloses(i)}}
      gone == DOMAIN activeConnections
      goneSocks == {activeConnections[id].clientWs : id \in gone}
  IN /\ geminiWs' = [g \in Socks |-> IF g \in closed THEN "closing" ELSE geminiWs[g]]
     /\ closeCalls' = [g \in Socks |-> IF g \in closed THEN closeCalls[g] + 1 ELSE closeCalls[g]]
     /\ deletes' = [s \in Socks |-> IF s \in goneSocks THEN deletes[s] + 1 ELSE deletes[s]]
     /\ activeConnections' = MapDelete(activeConnections, gone)

\* cleanupConnection for every id of ids, one after the other.  A record's
\* upstream socket belongs to that record alone, so the calls do not
\* interfere.  close() leaves the socket CLOSING.
CleanupConnections(ids) ==
  LET closed == {activeConnections[id].geminiWs : id \in {i \in ids : CleanupCloses(i)}}
      gone == {i \in ids : CleanupDeletes(i)}
      goneSocks == {activeConnections[id].clientWs : id \in gone}
  IN /\ geminiWs' = [g \in Socks |-> IF g \in closed THEN "closing" ELSE geminiWs[g]]
     /\ closeCalls' = [g \in Socks |-> IF g \in closed THEN closeCalls[g] + 1 ELSE closeCalls[g]]
     /\ deletes' = [s \in Socks |-> IF s \in goneSocks THEN deletes[s] + 1 ELSE deletes[s]]
     /\ activeConnections' = MapDelete(activeConnections, gone)

CleanupConnection(connectionId) == CleanupConnections({connectionId})

\* ws.on("error"): the socket is CLOSING when the event is emitted, its
\* "close" event follows.
ClientError(s) ==
  /\ Running
  /\ clientWs[s] = "open"
  /\ clientWs' = [clientWs EXCEPT ![s] = "closing"]
  /\ CleanupConnection(connId[s])
  /\ Step(Event("clientError", s, <<>>, "", NoUpMsg))
  /\ UNCHANGED <<apiKey, now, listener, exited, connId, clientSent, gemSent, lastAudioAt>>

\* ws.on("close")
ClientClose(s) ==
  /\ Running
  /\ clientWs[s] \in {"open", "closing"}
  /\ clientWs' = [clientWs EXCEPT ![s] = "closed"]
  /\ CleanupConnection(connId[s])
  /\ Step(Event("clientClose", s, <<>>, "", NoUpMsg))
  /\ UNCHANGED <<apiKey, now, listener, exited, connId, clientSent, gemSent, lastAudioAt>>


\* ------------------------------------------------------ upstream handlers
\* An open handler that sends no setup envelope.
GemOpenNoSetup(g) ==
  /\ Running
  /\ geminiWs[g] = "connecting"
  /\ geminiWs' = [geminiWs EXCEPT ![g] = "open"]
  /\ Step(Event("gemOpen", g, <<>>, "", NoUpMsg))
  /\ UNCHANGED <<apiKey, now, listener, exited, clientWs, connId, activeConnections,
                 clientSent, closeCalls, deletes, lastAudioAt, gemSent>>

\* geminiWs.on("open"): the setup envelope is sent, whether or not the
\* record still exists.
GemOpen(g) ==
  /\ Running
  /\ geminiWs[g] = "connecting"
  /\ geminiWs' = [geminiWs EXCEPT ![g] = "open"]
  /\ gemSent' = [gemSent EXCEPT ![g] = Append(@, SetupMessage)]
  /\ Step(Event("gemOpen", g, <<>>, "", NoUpMsg))
  /\ UNCHANGED <<apiKey, now, listener, exited, clientWs, connId, activeConnections,
                 clientSent, closeCalls, deletes, lastAudioAt>>

\* part.inlineData.mimeType.startsWith throws when inlineData has no mimeType.
PartsThrow(parts) == \E i \in 1..Len(parts) : parts[i].kind = "nomime"

\* The binary frames the loop over modelTurn.parts sends, up to a throw.
RECURSIVE PartsFrames(_)
PartsFrames(parts) ==
  IF Len(parts) = 0 \/ parts[1].kind = "nomime" THEN <<>>
  ELSE (IF parts[1].kind = "audio"
        THEN <<ClientBinary(Base64Decode(parts[1].data))>>
        ELSE <<>>) \o PartsFrames(Tail(parts))

\* An interruption reported with the type of a completed generation.
TurnEventsMerged(message) ==
     (IF message.generationComplete THEN <<GenerationComplete>> ELSE <<>>)
  \o (IF message.interrupted THEN <<GenerationComplete>> ELSE <<>>)
  \o (IF message.turnComplete THEN <<TurnComplete>> ELSE <<>>)

\* The typed events of lines 241-266, in the order of the three ifs.
TurnEvents(message) ==
     (IF message.generationComplete THEN <<GenerationComplete>> ELSE <<>>)
  \o (IF message.interrupted THEN <<Interrupted>> ELSE <<>>)
  \o (IF message.turnComplete THEN <<TurnComplete>> ELSE <<>>)

\* connection.isGenerating = false in each of the three ifs.
TurnEnds(message) ==
  message.generationComplete \/ message.interrupted \/ message.turnComplete

\* connected assigned from the message instead of set once.
ReadyAfterAssigned(connection, message) == message.setupComplete

\* if (message.setupComplete) connection.connected = true
ReadyAfter(connection, message) == connection.connected \/ message.setupComplete

\* The early return of line 212.
GeminiMessageHandled(connectionId) ==
  /\ Registered(connectionId)
  /\ clientWs[activeConnections[connectionId].clientWs] = "open"

\* handleGeminiMessage; an exception in the parts loop ends the handler
\* (it is caught by the "message" handler) with the earlier effects kept.
HandleGeminiMessage(connectionId, message) ==
  IF ~GeminiMessageHandled(connectionId)
  THEN UNCHANGED <<activeConnections, clientSent>>
  ELSE
    LET connection == activeConnections[connectionId]
        threw == message.serverContent /\ PartsThrow(message.parts)
        completes == message.serverContent /\ ~threw /\ TurnEnds(message)
        out ==    (IF message.setupComplete THEN <<Connected(connectionId)>> ELSE <<>>)
               \o (IF message.serverContent THEN PartsFrames(message.parts) ELSE <<>>)
               \o (IF message.serverContent /\ ~threw THEN TurnEvents(message) ELSE <<>>)
    IN /\ activeConnections' =
            [activeConnections EXCEPT
               ![connectionId].connected = ReadyAfter(connection, message),
               ![connectionId].isGenerating = IF completes THEN FALSE ELSE @]
       /\ clientSent' = ClientSend(connection.clientWs, out)

\* Frames arrive on a socket that is OPEN, and on one that is CLOSING
\* because close() was called on it while OPEN, until its close event; a
\* socket that failed never delivers a frame after its error event.
Receiving(g) ==
  \/ geminiWs[g] = "open"
  \/ geminiWs[g] = "closing" /\ closeCalls[g] > 0

\* A handler for which a payload that does not parse ends the connection.
GemMessageFatal(g, message) ==
  /\ Running
  /\ Receiving(g)
  /\ IF message.parses
     THEN HandleGeminiMessage(connId[g], message)
     ELSE /\ activeConnections' = MapDelete(activeConnections, {connId[g]})
          /\ UNCHANGED clientSent
  /\ Step(Event("gemMessage", g, <<>>, "", message))
  /\ UNCHANGED <<apiKey, now, listener, exited, clientWs, connId, geminiWs,
                 gemSent, closeCalls, deletes, lastAudioAt>>

\* geminiWs.on("message")
GemMessage(g, message) ==
  /\ Running
  /\ Receiving(g)
  /\ IF message.parses
     THEN HandleGeminiMessage(connId[g], message)
     ELSE UNCHANGED <<activeConnections, clientSent>>
  /\ Step(Event("gemMessage", g, <<>>, "", message))
  /\ UNCHANGED <<apiKey, now, listener, exited, clientWs, connId, geminiWs,
                 gemSent, closeCalls, deletes, lastAudioAt>>

\* The condition of lines 175 and 189.
ClientNotified(connectionId) ==
  /\ Registered(connectionId)
  /\ clientWs[activeConnections[connectionId].clientWs] = "open"

NotifyClient(connectionId, event) ==
  clientSent' =
    IF ClientNotified(connectionId)
    THEN ClientSend(activeConnections[connectionId].clientWs, <<event>>)
    ELSE clientSent

\* An error handler that also removes the record.
GemErrorTearsDown(g) ==
  /\ Running
  /\ geminiWs[g] \in {"connecting", "open"}
  /\ geminiWs' = [geminiWs EXCEPT ![g] = "closing"]
  /\ NotifyClient(connId[g], UpstreamError)
  /\ activeConnections' = MapDelete(activeConnections, {connId[g]})
  /\ Step(Event("gemError", g, <<>>, "", NoUpMsg))
  /\ UNCHANGED <<apiKey, now, listener, exited, clientWs, connId,
                 gemSent, closeCalls, deletes, lastAudioAt>>

\* geminiWs.on("error"): the socket is CLOSING when the event is emitted.
GemError(g) ==
  /\ Running
  /\ geminiWs[g] \in {"connecting", "open"}
  /\ geminiWs' = [geminiWs EXCEPT ![g] = "closing"]
  /\ NotifyClient(connId[g], UpstreamError)
  /\ Step(Event("gemError", g, <<>>, "", NoUpMsg))
  /\ UNCHANGED <<apiKey, now, listener, exited, clientWs, connId, activeConnections,
                 gemSent, closeCalls, deletes, lastAudioAt>>

\* geminiWs.on("close")
GemClose(g) ==
  /\ Running
  /\ geminiWs[g] \in {"open", "closing"}
  /\ geminiWs' = [geminiWs EXCEPT ![g] = "closed"]
  /\ NotifyClient(connId[g], Disconnected)
  /\ Step(Event("gemClose", g, <<>>, "", NoUpMsg))
  /\ UNCHANGED <<apiKey, now, listener, exited, clientWs, connId, activeConnections,
                 gemSent, closeCalls, deletes, lastAudioAt>>

\* ------------------------------------------------------------ idle reaper
\* A sweep that also removes a record aged exactly the threshold.
InactiveAtThreshold(connectionId) ==
  now - activeConnections[connectionId].lastActivity >= Timeout

\* if (now - connection.lastActivity > timeout)
Inactive(connectionId) ==
  now - activeConnections[connectionId].lastActivity > Timeout

\* The setInterval callback: one sweep over the registry.
Reap ==
  /\ Running
  /\ CleanupConnections({id \in DOMAIN activeConnections : Inactive(id)})
  /\ Step(Event("reap", 0, <<>>, "", NoUpMsg))
  /\ UNCHANGED <<apiKey, now, listener, exited, clientWs, connId, clientSent,
                 gemSent, lastAudioAt>>

\* Time passes.
Tick(d) ==
  /\ Running
  /\ now + d <= MaxNow
  /\ now' = now + d
  /\ Step(Event("tick", 0, <<>>, "", NoUpMsg))
  /\ UNCHANGED <<apiKey, listener, exited, clientWs, connId, geminiWs,
                 activeConnections, clientSent, gemSent, closeCalls, deletes, lastAudioAt>>

\* --------------------------------------------------------------- shutdown
\* A signal handler that asks the listener to close without cleaning up.
SignalSkipsCleanup(name) ==
  /\ Running
  /\ listener' = IF listener = "listening" THEN "closing" ELSE listener
  /\ Step(Event(name, 0, <<>>, "", NoUpMsg))
  /\ UNCHANGED <<apiKey, now, exited, clientWs, connId, clientSent, gemSent, lastAudioAt,
                 geminiWs, closeCalls, deletes, activeConnections>>

\* process.on("SIGTERM") / process.on("SIGINT"): every registered
\* connection is cleaned up, then server.close(callback).
Signal(name) ==
  /\ Running
  /\ CleanupConnections(DOMAIN activeConnections)
  /\ listener' = IF listener = "listening" THEN "closing" ELSE listener
  /\ Step(Event(name, 0, <<>>, "", NoUpMsg))
  /\ UNCHANGED <<apiKey, now, exited, clientWs, connId, clientSent, gemSent, lastAudioAt>>

\* The http server emits "close" once it has stopped listening and no
\* accepted socket is left; the callback calls process.exit(0).  The event
\* is the server's own and is delivered whatever number of events the
\* environment has sent before.
ListenerClosed ==
  /\ ~exited
  /\ listener = "closing"
  /\ \A s \in Socks : clientWs[s] \in {"none", "closed"}
  /\ listener' = "closed"
  /\ exited' = TRUE
  /\ Step(Event("listenerClosed", 0, <<>>, "", NoUpMsg))
  /\ UNCHANGED <<apiKey, now, clientWs, connId, geminiWs, activeConnections,
                 clientSent, gemSent, closeCalls, deletes, lastAudioAt>>

Next ==
  \/ \E s \in Socks, r \in 0..(MaxRand - 1) : Connect(s, r)
  \/ \E s \in Socks, f \in AudioFrames : ClientAudio(s, f)
  \/ \E s \in Socks, t \in ClientTexts : ClientText(s, t)
  \/ \E s \in Socks : ClientError(s)
  \/ \E s \in Socks : ClientClose(s)
  \/ \E g \in Socks : GemOpen(g)
  \/ \E g \in Socks, m \in UpMsgs : GemMessage(g, m)
  \/ \E g \in Socks : GemError(g)
  \/ \E g \in Socks : GemClose(g)
  \/ Reap
  \/ \E d \in TickSteps : Tick(d)
  \/ \E name \in {"SIGTERM", "SIGINT"} : Signal(name)
  \/ ListenerClosed

Spec == Init /\ [][Next]_vars

\* The event loop runs every callback that stays due: the listener's close
\* event, the reaper's interval timer, and the close event of an upstream
\* socket on which close() was called or an error occurred.  Nothing makes
\* a client close its socket.
FairSpec ==
  /\ Spec
  /\ WF_vars(ListenerClosed)
  /\ WF_vars(Reap)
  /\ \A g \in Socks : WF_vars(GemClose(g) /\ geminiWs[g] = "closing")


\* ================================================================ claims
\* What a step appended to the log of upstream socket g / client socket s.
GemAppended(g) == SubSeq(gemSent'[g], Len(gemSent[g]) + 1, Len(gemSent'[g]))
ClientAppended(s) == SubSeq(clientSent'[s], Len(clientSent[s]) + 1, Len(clientSent'[s]))

\* Every step only appends to the logs.
GemLogGrows(g) ==
  /\ Len(gemSent'[g]) >= Len(gemSent[g])
  /\ SubSeq(gemSent'[g], 1, Len(gemSent[g])) = gemSent[g]

HasAudio(log) == \E i \in 1..Len(log) : log[i].kind = "audio"

\* C1: an audio-input envelope is put on an upstream socket only by the step
\* that receives a binary frame, it carries that very frame, and in the state
\* the frame is received in the record of the receiving connection is ready
\* and owns that upstream socket, which is open.  A frame received while
\* the record is not ready (or absent) leaves every upstream log as it was,
\* and no later step sends it.
C1_AudioOnlyWhenReady ==
  [][ /\ \A g \in Socks :
           /\ GemLogGrows(g)
           /\ HasAudio(GemAppended(g)) =>
                /\ ev'.type = "audio"
                /\ GemAppended(g) = <<RealtimeAudio(ev'.data)>>
                /\ Registered(connId[ev'.sock])
                /\ activeConnections[connId[ev'.sock]].connected
                /\ activeConnections[connId[ev'.sock]].geminiWs = g
                /\ geminiWs[g] = "open"
      /\ ( /\ ev'.type = "audio"
           /\ ~(Registered(connId[ev'.sock]) /\ activeConnections[connId[ev'.sock]].connected) )
         => gemSent' = gemSent
    ]_vars

\* C1 witness: a frame was received before setup completed, the record is
\* ready now, and the upstream socket has been sent the setup envelope only.
C1_Witness ==
  \E s \in Socks :
    /\ Registered(connId[s])
    /\ activeConnections[connId[s]].connected
    /\ activeConnections[connId[s]].geminiWs = s
    /\ geminiWs[s] = "open"
    /\ lastAudioAt[s] >= 0
    /\ ev.type = "gemMessage"
    /\ gemSent[s] = <<SetupMessage>>

\* C2, as stated: every binary frame received while the record is ready
\* appends one audio-input envelope carrying it to the record's upstream log.
C2_Original ==
  [][ ( /\ ev'.type = "audio"
        /\ Registered(connId[ev'.sock])
        /\ activeConnections[connId[ev'.sock]].connected )
      => LET g == activeConnections[connId[ev'.sock]].geminiWs
         IN gemSent'[g] = Append(gemSent[g], RealtimeAudio(ev'.data))
    ]_vars

\* C2, amended: every binary frame received while the record is ready and
\* its upstream socket is open appends exactly one audio-input envelope, the
\* base64 text of that frame, at the end of that upstream socket's log and
\* changes no other log; a frame received while the upstream socket is not
\* open is sent nowhere.  Logs only grow, so the envelopes stand in the
\* order of receipt.
C2_ForwardedInOrder ==
  [][ /\ \A g \in Socks : GemLogGrows(g)
      /\ ev'.type = "audio" =>
           LET id == connId[ev'.sock] IN
             IF /\ Registered(id)
                /\ activeConnections[id].connected
                /\ geminiWs[activeConnections[id].geminiWs] = "open"
             THEN LET g == activeConnections[id].geminiWs
                  IN /\ gemSent'[g] = Append(gemSent[g], RealtimeAudio(ev'.data))
                     /\ Base64Decode(gemSent'[g][Len(gemSent'[g])].data) = ev'.data
                     /\ \A h \in Socks \ {g} : gemSent'[h] = gemSent[h]
             ELSE gemSent' = gemSent
    ]_vars

\* C2 witness: two different frames forwarded after setup, in their order.
C2_Witness ==
  \E s \in Socks :
    /\ Registered(connId[s])
    /\ activeConnections[connId[s]].connected
    /\ gemSent[s] = <<SetupMessage, RealtimeAudio(<<77>>), RealtimeAudio(<<1, 2, 3, 4>>)>>

C4_ActivityOnEveryFrame ==
  [][ (ev'.type = "audio" /\ Registered(connId[ev'.sock]))
      => /\ connId[ev'.sock] \in DOMAIN activeConnections'
         /\ activeConnections'[connId[ev'.sock]].lastActivity = now
    ]_vars

\* C5: a sweep of the idle reaper removes exactly the records with
\* now - lastActivity > Timeout; every other record is in the registry
\* after the sweep, unchanged.
C5_ReaperSweep ==
  [][ ev'.type = "reap" =>
        \A id \in DOMAIN activeConnections :
          IF now - activeConnections[id].lastActivity > Timeout
          THEN id \notin DOMAIN activeConnections'
          ELSE /\ id \in DOMAIN activeConnections'
               /\ activeConnections'[id] = activeConnections[id]
    ]_vars

\* C5 witness: a sweep that removed the record of socket 1, aged
\* Timeout + 1, and kept the record of socket 2, aged exactly Timeout.
C5_Witness ==
  /\ ev.type = "reap"
  /\ MaxConns >= 2
  /\ deletes[1] = 1
  /\ ~Registered(connId[1])
  /\ Registered(connId[2])
  /\ activeConnections[connId[2]].clientWs = 2
  /\ now - activeConnections[connId[2]].lastActivity = Timeout

\* C6: a sweep never removes the record of a connection whose client sent
\* a binary frame within the last Timeout milliseconds.
C6_NoReapWithRecentAudio ==
  [][ ev'.type = "reap" =>
        \A s \in Socks :
          ( /\ Registered(connId[s])
            /\ activeConnections[connId[s]].clientWs = s
            /\ lastAudioAt[s] >= 0
            /\ now - lastAudioAt[s] <= Timeout )
          => connId[s] \in DOMAIN activeConnections'
    ]_vars

\* C7: every "ping" received from an open client socket appends exactly
\* one pong to that client's log and sends nothing upstream.
C7_PingPong ==
  [][ (ev'.type = "text" /\ ev'.text = "ping")
      => /\ clientSent'[ev'.sock] = Append(clientSent[ev'.sock], Pong)
         /\ gemSent' = gemSent
    ]_vars

\* The client event a single terminal flag stands for.
FlagEvents(gc, intr, tc) ==
     (IF gc THEN <<ClientEvent("generation_complete", "", "", NoId)>> ELSE <<>>)
  \o (IF intr THEN <<ClientEvent("interrupted", "", "", NoId)>> ELSE <<>>)
  \o (IF tc THEN <<ClientEvent("turn_complete", "", "", NoId)>> ELSE <<>>)

IsTurnEvent(m) == m.type \in {"generation_complete", "interrupted", "turn_complete"}

C9_TeardownIdempotent ==
  [][ /\ ev'.type \in {"clientClose", "clientError"} =>
           /\ ~Registered(connId[ev'.sock]) =>
                UNCHANGED <<activeConnections, geminiWs, closeCalls, deletes,
                            gemSent, clientSent>>
           /\ connId[ev'.sock] \notin DOMAIN activeConnections'
      /\ \A s \in Socks : closeCalls'[s] <= 1 /\ deletes'[s] <= 1
    ]_vars

\* C9 witness: a client error tore the connection down (upstream closed,
\* record deleted) and the client close that followed found the id absent.
C9_Witness ==
  \E s \in Socks :
    /\ ev.type = "clientClose" /\ ev.sock = s
    /\ clientWs[s] = "closed"
    /\ closeCalls[s] = 1
    /\ deletes[s] = 1
    /\ geminiWs[s] = "closing"
    /\ ~Registered(connId[s])

\* C10: without a credential, the step that accepts a client connection
\* sends that client the configuration error and nothing else, and no
\* upstream socket exists in any state.
C10_NoCredential ==
  [][ ~apiKey =>
        /\ ev'.type = "connection" =>
             /\ clientSent'[ev'.sock] = <<ConfigError>>
             /\ \A s \in Socks \ {ev'.sock} : clientSent'[s] = clientSent[s]
        /\ \A g \in Socks : geminiWs'[g] = "none" /\ gemSent'[g] = <<>>
        /\ activeConnections' = EmptyMap
    ]_vars

\* C10 witness: no credential, a client connected and sent a frame later;
\* it has been sent the configuration error only and has no upstream socket.
C10_Witness ==
  /\ ~apiKey
  /\ ev.type = "audio" /\ ev.sock = 1
  /\ clientWs[1] = "open"
  /\ clientSent[1] = <<ConfigError>>
  /\ geminiWs[1] = "none"

\* C11: the id generated for a new connection differs from the id of every
\* connection accepted before, and is not a key of the registry.
C11_UniqueIds ==
  [][ ev'.type = "connection" =>
        /\ \A t \in Socks \ {ev'.sock} : connId[t] # connId'[ev'.sock]
        /\ connId'[ev'.sock] \notin DOMAIN activeConnections
    ]_vars

C13_ClientCloseTearsDown ==
  [][ ev'.type \in {"clientClose", "clientError"} =>
        LET id == connId[ev'.sock] IN
          /\ id \notin DOMAIN activeConnections'
          /\ Registered(id) =>
               LET g == activeConnections[id].geminiWs
                   c == activeConnections[id].clientWs
               IN /\ deletes'[c] = deletes[c] + 1
                  /\ IF geminiWs[g] = "open"
                     THEN geminiWs'[g] = "closing" /\ closeCalls'[g] = closeCalls[g] + 1
                     ELSE geminiWs'[g] = geminiWs[g] /\ closeCalls'[g] = closeCalls[g]
    ]_vars

\* C13 witness: a client error on a connection whose upstream socket was
\* open: the socket is closing, the record is gone.
C13_Witness ==
  \E s \in Socks :
    /\ ev.type = "clientError" /\ ev.sock = s
    /\ clientWs[s] = "closing"
    /\ geminiWs[s] = "closing"
    /\ closeCalls[s] = 1
    /\ deletes[s] = 1
    /\ ~Registered(connId[s])

\* C14: after the step that handles the close of an upstream socket, the
\* id of its connection is not in the registry.
C14_UpstreamCloseTearsDown ==
  [][ ev'.type = "gemClose" => connId[ev'.sock] \notin DOMAIN activeConnections' ]_vars

\* C15: no activity-start or end-of-stream envelope is appended to the log
\* of an upstream socket while the record that owns it is not ready.
C15_ControlGatedByReady ==
  [][ \A g \in Socks :
        (\E i \in 1..Len(GemAppended(g)) :
            GemAppended(g)[i].kind \in {"activityStart", "audioStreamEnd"})
        => \E id \in DOMAIN activeConnections :
             /\ activeConnections[id].geminiWs = g
             /\ activeConnections[id].connected
    ]_vars

\* C16: the step that handles the close of an upstream socket while the
\* client socket of the same connection is open sends that client the
\* disconnected event (stated for a connection that shares its id with no
\* other, so that the notification has one possible addressee).
C16_DisconnectedOnEveryUpstreamClose ==
  [][ ( /\ ev'.type = "gemClose"
        /\ clientWs[ev'.sock] = "open"
        /\ \A t \in Socks \ {ev'.sock} : connId[t] # connId[ev'.sock] )
      => clientSent'[ev'.sock] = Append(clientSent[ev'.sock], Disconnected)
    ]_vars

\* C17: the step that handles an upstream error sends the upstream-failure
\* event, once, to the client of the record registered under the
\* connection's id if that client is open, and nothing to anyone else; it
\* leaves the registry as it was, calls close() on no socket and changes
\* the state of no socket but the one that reported the error.
C17_UpstreamErrorNotifiesOnly ==
  [][ ev'.type = "gemError" =>
        LET g == ev'.sock
            id == connId[g]
        IN /\ UNCHANGED <<activeConnections, clientWs, closeCalls, deletes, gemSent>>
           /\ \A h \in Socks \ {g} : geminiWs'[h] = geminiWs[h]
           /\ IF Registered(id) /\ clientWs[activeConnections[id].clientWs] = "open"
              THEN clientSent' =
                     [clientSent EXCEPT ![activeConnections[id].clientWs] =
                        Append(@, ClientEvent("error", "", "Gemini connection failed", NoId))]
              ELSE clientSent' = clientSent
    ]_vars

\* C17 witness: an open upstream socket of a registered connection reported
\* an error; the client got the one error event, the record is registered.
C17_Witness ==
  \E s \in Socks :
    /\ ev.type = "gemError" /\ ev.sock = s
    /\ Registered(connId[s])
    /\ activeConnections[connId[s]].clientWs = s
    /\ clientWs[s] = "open"
    /\ Len(gemSent[s]) > 0
    /\ clientSent[s] = <<UpstreamError>>

\* C18: the step that handles a text frame which does not parse, or whose
\* handling throws (JSON null for a registered connection), sends the
\* processing-error event, once, to the sending client and changes nothing
\* else: registry, socket states and upstream logs are as before.
C18_MalformedClientText ==
  [][ ( /\ ev'.type = "text"
        /\ \/ ev'.text = "malformed"
           \/ ev'.text = "null" /\ Registered(connId[ev'.sock]) )
      => /\ clientSent' =
              [clientSent EXCEPT ![ev'.sock] =
                 Append(@, ClientEvent("error", "", "Failed to process message", NoId))]
         /\ UNCHANGED <<activeConnections, clientWs, geminiWs, gemSent, closeCalls, deletes>>
    ]_vars

\* C18 witness: a ready connection with an open upstream socket received
\* malformed text; it was answered with the error event and is still ready.
C18_Witness ==
  \E s \in Socks :
    /\ ev.type = "text" /\ ev.text = "malformed" /\ ev.sock = s
    /\ Registered(connId[s])
    /\ activeConnections[connId[s]].connected
    /\ clientWs[s] = "open"
    /\ geminiWs[s] = "open"
    /\ clientSent[s] = <<Connected(connId[s]), ProcessError>>

\* C19: the step that handles an upstream payload which does not parse
\* changes nothing: registry, socket states and all logs are as before, so
\* the socket keeps delivering messages to the same handler.
C19_MalformedUpstreamDropped ==
  [][ (ev'.type = "gemMessage" /\ ~ev'.up.parses)
      => UNCHANGED <<activeConnections, clientWs, geminiWs, clientSent, gemSent,
                     closeCalls, deletes>>
    ]_vars

\* C19 witness: a ready connection with both sockets open whose upstream
\* sent a payload that does not parse.
C19_Witness ==
  \E s \in Socks :
    /\ ev.type = "gemMessage" /\ ~ev.up.parses /\ ev.sock = s
    /\ Registered(connId[s])
    /\ activeConnections[connId[s]].connected
    /\ clientWs[s] = "open"
    /\ geminiWs[s] = "open"

\* C20: a step that handles an event of socket a (client message, close or
\* error; upstream open, message, close or error) leaves, for every other
\* connection b, both socket states, both logs and the registry entry of
\* b's record as they were.
C20_Isolation ==
  [][ ev'.type \in {"audio", "text", "clientClose", "clientError",
                    "gemOpen", "gemMessage", "gemError", "gemClose"} =>
        \A b \in Socks \ {ev'.sock} :
          /\ clientWs'[b] = clientWs[b]
          /\ geminiWs'[b] = geminiWs[b]
          /\ clientSent'[b] = clientSent[b]
          /\ gemSent'[b] = gemSent[b]
          /\ \A id \in DOMAIN activeConnections :
               activeConnections[id].clientWs = b =>
                 /\ id \in DOMAIN activeConnections'
                 /\ activeConnections'[id] = activeConnections[id]
    ]_vars

\* C21: a signal step removes every record and closes the upstream socket of
\* every record that had it open, in the step that asks the listener to
\* close; the listener reports closed, and the process exits, only in the
\* step of the listener's close event; a signal delivered when the listener
\* no longer listens closes no socket, removes nothing and does not exit.
Signals == {"SIGTERM", "SIGINT"}

C21_Shutdown ==
  [][ /\ (listener # listener' /\ listener' = "closing") => ev'.type \in Signals
      /\ ev'.type \in Signals =>
           /\ listener' = "closing"
           /\ exited' = FALSE
           /\ activeConnections' = EmptyMap
           /\ \A id \in DOMAIN activeConnections :
                LET g == activeConnections[id].geminiWs IN
                  geminiWs[g] = "open" =>
                    geminiWs'[g] = "closing" /\ closeCalls'[g] = closeCalls[g] + 1
           /\ \A g \in Socks : closeCalls'[g] <= 1
           /\ listener # "listening" =>
                UNCHANGED <<listener, activeConnections, geminiWs, clientWs,
                            closeCalls, deletes, clientSent, gemSent>>
      /\ (exited' \/ listener' = "closed") =>
           /\ listener' = "closed"
           /\ ev'.type = "listenerClosed" \/ UNCHANGED <<listener, exited>>
    ]_vars

\* A second signal arrived after the first one closed the upstream socket of
\* a connection whose client is still open.
C21_Witness ==
  \E g \in Socks :
    /\ ev.type = "SIGINT"
    /\ listener = "closing"
    /\ clientWs[g] = "open"
    /\ geminiWs[g] = "closed"
    /\ closeCalls[g] = 1
    /\ deletes[g] = 1
    /\ activeConnections = EmptyMap

\* C22: a step appends a setup envelope to the log of upstream socket g
\* exactly when it is the step in which g opens, and then it appends that
\* envelope alone; hence every non-empty upstream log starts with the setup
\* envelope and holds no second one.
C22_SetupFirstAndOnce ==
  [][ \A g \in Socks :
        /\ GemLogGrows(g)
        /\ (ev'.type = "gemOpen" /\ ev'.sock = g) <=>
             (geminiWs[g] # "open" /\ geminiWs'[g] = "open")
        /\ IF ev'.type = "gemOpen" /\ ev'.sock = g
           THEN GemAppended(g) = <<SetupMessage>> /\ gemSent[g] = <<>>
           ELSE \A i \in 1..Len(GemAppended(g)) : GemAppended(g)[i] # SetupMessage
        /\ gemSent'[g] # <<>> =>
             /\ gemSent'[g][1] = SetupMessage
             /\ \A i \in 2..Len(gemSent'[g]) : gemSent'[g][i] # SetupMessage
    ]_vars

\* Audio and a control envelope followed the setup envelope on one socket.
C22_Witness ==
  \E g \in Socks :
    /\ Len(gemSent[g]) = 3
    /\ gemSent[g][1] = SetupMessage
    /\ gemSent[g][2].kind = "audio"
    /\ gemSent[g][3].kind \in {"activityStart", "audioStreamEnd"}

\* C23: when a registered connection with an open client handles an upstream
\* content event that carries model-turn parts and no terminal turn signal,
\* the record's generating flag is true afterwards.
C23_GeneratingDuringTurn ==
  [][ ( /\ ev'.type = "gemMessage"
        /\ ev'.up.parses
        /\ ev'.up.serverContent
        /\ Len(ev'.up.parts) > 0
        /\ ~PartsThrow(ev'.up.parts)
        /\ ~TurnEnds(ev'.up)
        /\ GeminiMessageHandled(connId[ev'.sock]) ) =>
        activeConnections'[connId[ev'.sock]].isGenerating
    ]_vars

\* C24: an accepted client connection whose record has not been torn down
\* has a record of its own in the registry, with or without a credential.
C24_RecordWhileConnected ==
  \A s \in Socks :
    (clientWs[s] = "open" /\ deletes[s] = 0) =>
      /\ Registered(connId[s])
      /\ activeConnections[connId[s]].clientWs = s

\* C25: for a registered connection an interrupt or audio_stream_end message
\* appends exactly one activity-start, respectively end-of-stream, envelope
\* to the log of the record's upstream socket when that socket is open and
\* nothing otherwise; no other upstream log, no client log and no record
\* changes.
C25_ControlIffUpstreamOpen ==
  [][ ( /\ ev'.type = "text"
        /\ ev'.text \in {"interrupt", "audio_stream_end"}
        /\ Registered(connId[ev'.sock]) ) =>
        LET g == activeConnections[connId[ev'.sock]].geminiWs
            envelope == IF ev'.text = "interrupt" THEN InterruptMessage ELSE EndMessage
        IN /\ gemSent' = IF geminiWs[g] = "open"
                         THEN [gemSent EXCEPT ![g] = Append(@, envelope)]
                         ELSE gemSent
           /\ UNCHANGED <<clientSent, activeConnections, clientWs, geminiWs>>
    ]_vars

\* An end-of-stream message was forwarded on an open upstream socket, and
\* an interrupt for a record whose upstream socket is not open sent nothing.
C25_Witness ==
  \E s, t \in Socks :
    /\ ev.type = "text" /\ ev.text = "interrupt" /\ ev.sock = t
    /\ Registered(connId[t])
    /\ geminiWs[activeConnections[connId[t]].geminiWs] = "connecting"
    /\ gemSent[activeConnections[connId[t]].geminiWs] = <<>>
    /\ gemSent[s] = <<SetupMessage, EndMessage>>

\* C26: an upstream content event handled for a registered connection whose
\* client socket is open appends to that client's log one binary frame per
\* inline audio part, in the order of the parts and with the decoded bytes
\* of the part, nothing for the other parts, and after the frames the turn
\* events of the same upstream event.
IsAudioPart(p) == p.kind = "audio"
IsBinary(m) == m.type = "binary"

C26_AudioPartsInOrder ==
  [][ ( /\ ev'.type = "gemMessage"
        /\ ev'.up.parses /\ ev'.up.serverContent
        /\ Registered(connId[ev'.sock])
        /\ clientWs[activeConnections[connId[ev'.sock]].clientWs] = "open" ) =>
        LET c == activeConnections[connId[ev'.sock]].clientWs
            audio == SelectSeq(ev'.up.parts, IsAudioPart)
            frames == [i \in 1..Len(audio) |-> ClientBinary(Base64Decode(audio[i].data))]
            sent == ClientAppended(c)
        IN /\ SubSeq(clientSent'[c], 1, Len(clientSent[c])) = clientSent[c]
           /\ SelectSeq(sent, IsBinary) = frames
           /\ \A i, j \in 1..Len(sent) :
                (IsTurnEvent(sent[i]) /\ IsBinary(sent[j])) => j < i
    ]_vars

\* C27: a step that appends a connected event to the log of client c is the
\* step that handles a setup-complete signal of the upstream socket of c's
\* record; that record is registered and ready after the step and the event
\* carries the record's id.
IsConnected(m) == m.type = "connection" /\ m.status = "connected"

C27_ConnectedOnSetupComplete ==
  [][ \A c \in Socks :
        \A i \in 1..Len(ClientAppended(c)) :
          IsConnected(ClientAppended(c)[i]) =>
            LET id == ClientAppended(c)[i].connectionId IN
              /\ ev'.type = "gemMessage"
              /\ ev'.up.setupComplete
              /\ id \in DOMAIN activeConnections'
              /\ id = connId[c]
              /\ activeConnections'[id].clientWs = c
              /\ activeConnections'[id].connected
              /\ activeConnections'[id].geminiWs = ev'.sock
    ]_vars

\* C28: an upstream socket that is open is the upstream socket of a record
\* in the registry (stated for connections whose ids are distinct).
C28_OpenUpstreamOwned ==
  \A g \in Socks :
    ( /\ geminiWs[g] = "open"
      /\ \A t \in Socks \ {g} : connId[t] # connId[g] ) =>
      \E id \in DOMAIN activeConnections : activeConnections[id].geminiWs = g

\* C29: once the record of connection g has been deleted and no record
\* refers to upstream socket g, a message, close or error event of g
\* appends nothing to the log of client g and leaves the registry as it is.
C29_SilentAfterRemoval ==
  [][ ( /\ ev'.type \in {"gemMessage", "gemClose", "gemError"}
        /\ deletes[ev'.sock] > 0
        /\ \A id \in DOMAIN activeConnections :
             activeConnections[id].geminiWs # ev'.sock ) =>
        /\ clientSent'[ev'.sock] = clientSent[ev'.sock]
        /\ activeConnections' = activeConnections
    ]_vars

\* C30: the steps that call cleanupConnection (a reaper sweep, a signal, a
\* client close or error) append nothing to any log and change no client
\* socket other than the one whose close or error event is handled; they
\* remove exactly the registry entries of the ids they clean up, leave
\* every other entry as it is, and move to CLOSING exactly the open
\* upstream sockets of the removed records.
C30_TeardownFrame ==
  [][ ev'.type \in {"reap", "clientClose", "clientError"} \cup Signals =>
        LET ids == IF ev'.type = "reap"
                   THEN {id \in DOMAIN activeConnections :
                           now - activeConnections[id].lastActivity > Timeout}
                   ELSE IF ev'.type \in Signals
                   THEN DOMAIN activeConnections
                   ELSE {connId[ev'.sock]} \cap DOMAIN activeConnections
            closed == {g \in Socks :
                         /\ geminiWs[g] = "open"
                         /\ \E id \in ids : activeConnections[id].geminiWs = g}
        IN /\ UNCHANGED <<clientSent, gemSent>>
           /\ \A s \in Socks :
                \/ clientWs'[s] = clientWs[s]
                \/ ev'.type \in {"clientClose", "clientError"} /\ ev'.sock = s
           /\ DOMAIN activeConnections' = DOMAIN activeConnections \ ids
           /\ \A id \in DOMAIN activeConnections' :
                activeConnections'[id] = activeConnections[id]
           /\ \A g \in Socks :
                geminiWs'[g] = IF g \in closed THEN "closing" ELSE geminiWs[g]
    ]_vars

\* A sweep removed the record of one open client and kept another's.
C30_Witness ==
  \E s, t \in Socks :
    /\ ev.type = "reap"
    /\ clientWs[s] = "open" /\ clientSent[s] = <<>>
    /\ deletes[s] = 1 /\ ~Registered(connId[s])
    /\ clientWs[t] = "open"
    /\ Registered(connId[t]) /\ activeConnections[connId[t]].clientWs = t

\* C31: once a signal has asked the listener to close, the process
\* eventually exits.
C31_ShutdownTerminates == (listener = "closing") ~> exited

====
